---------------------------- MODULE Spec2Model ----------------------------
(***************************************************************************)
(* Model of Client::fetch_segments / Client::fetch_segments_with_required  *)
(* (src/src/client/user/segments.rs).                                      *)
(*                                                                         *)
(* One call is modelled as a small state machine: the request is built and *)
(* sent, the call suspends on the transport, the body is deserialized, the *)
(* hash buckets are scanned (feature private_searches), and the raw        *)
(* records are normalized one at a time while being collected into a       *)
(* Result.                                                                 *)
(*                                                                         *)
(* Times are f32 values read from JSON.  JSON has no NaN literal and       *)
(* serde_json refuses one, so every value that reaches the range checks is *)
(* an ordinary number; only comparisons are applied to them, so they are   *)
(* modelled by integers with the same order.                               *)
(***************************************************************************)
EXTENDS Integers, Sequences, FiniteSets

\* ------------------------------------------------------------- bounds ----
\* Longest list of records in a plain-mode body.
MaxRecords == 2
\* Longest list of hash buckets in a privacy-mode body.
MaxBuckets == 2
\* Largest time value.
MaxTime == 1

\* Time values: negative ones (two, so that a negative start can exceed a
\* negative end), zero, and positive ones.
Times == (0 - 2)..MaxTime

\* All sequences over S of length at most n.
SeqsUpTo(S, n) == UNION {[1..k -> S] : k \in 0..n}

Range(s) == {s[i] : i \in DOMAIN s}

\* ------------------------------------------------------ caller inputs ----
VideoIds == {"vidA", "vidB"}

\* AcceptedCategories values a caller passes, as the list of their names.
CategorySets == {<<"sponsor">>, <<"sponsor", "poi_highlight">>}

\* required_segments slices a caller passes.
RequiredLists == {<<>>, <<"uuid1">>}

\* ------------------------------------------------------ collaborators ----
\* Sha256 followed by bytes_to_hex_string: a fixed digest per identifier.
\* The digests of vidA and vidB agree on all but the last character.
Sha256Hex(v) ==
    IF v = "vidA" THEN <<"a", "b", "1">> ELSE <<"a", "b", "2">>

DigestLen == Len(Sha256Hex("vidA"))

\* AcceptedCategories::gen_url_value: the bracketed list of category names.
GenUrlValue(cats) == <<"[">> \o cats \o <<"]">>

\* util::to_url_array: the bracketed list of the given strings.
ToUrlArray(items) == <<"[">> \o items \o <<"]">>

\* api::api_convert_segment_kind: a closed lookup, BadData when unknown.
KnownCategories ==
    {"sponsor", "selfpromo", "interaction", "poi_highlight",
     "intro", "outro", "preview", "music_offtopic"}

SegmentKindOf(category) ==
    CASE category = "sponsor"        -> "Sponsor"
      [] category = "selfpromo"      -> "UnpaidSelfPromotion"
      [] category = "interaction"    -> "InteractionReminder"
      [] category = "poi_highlight"  -> "Highlight"
      [] category = "intro"          -> "IntermissionIntroAnimation"
      [] category = "outro"          -> "EndcardsCredits"
      [] category = "preview"        -> "PreviewRecap"
      [] category = "music_offtopic" -> "NonMusic"
      [] OTHER                       -> "unknown"

\* SponsorBlockError values.  BadData carries its formatted description: the
\* fixed text, the numbers printed into it, and the string printed into it.
NoError == [type |-> "none", desc |-> "", nums |-> <<>>, text |-> ""]
BadData(desc, nums, text) ==
    [type |-> "BadData", desc |-> desc, nums |-> nums, text |-> text]
HttpError == [type |-> "Http", desc |-> "", nums |-> <<>>, text |-> ""]
JsonError == [type |-> "Json", desc |-> "", nums |-> <<>>, text |-> ""]
NoMatchingVideoHash ==
    [type |-> "NoMatchingVideoHash", desc |-> "", nums |-> <<>>, text |-> ""]

\* SponsorBlockResult<T>.
Ok(v) == [state |-> "ok", val |-> v, err |-> NoError]
Err(e) == [state |-> "err", val |-> <<>>, err |-> e]
Pending == [state |-> "pending", val |-> <<>>, err |-> NoError]

ApiConvertSegmentKind(category) ==
    IF category \in KnownCategories
    THEN Ok(SegmentKindOf(category))
    ELSE Err(BadData("unknown category", <<>>, category))

\* api::api_convert_action_type: a closed lookup, BadData when unknown.
KnownActionTypes == {"skip", "mute"}

ApiConvertActionType(action) ==
    IF action \in KnownActionTypes
    THEN Ok(IF action = "skip" THEN "Skip" ELSE "Mute")
    ELSE Err(BadData("unknown action type", <<>>, action))

\* ------------------------------------------------------- wire records ----
\* RawSegment as deserialized.  A field absent from the payload takes its
\* type's default (#[serde(default)]).
RawSegment(category, action, start, end, uuid, locked, votes) ==
    [category |-> category, action_type |-> action, segment |-> <<start, end>>,
     uuid |-> uuid, locked |-> locked, votes |-> votes,
     video_duration_upon_submission |-> 0]

DefaultRawSegment == RawSegment("", "", 0, 0, "", 0, 0)

\* The records a plain-mode body may carry: every time pair for a section
\* kind and for the highlight kind, a record without actionType, and the
\* all-default record (an object with none of the known keys).
Records ==
    {RawSegment(c, "skip", s, e, "uuid1", 1, 0 - 1) :
        c \in {"sponsor", "poi_highlight"}, s \in Times, e \in Times}
    \cup {RawSegment("sponsor", "", 0, 1, "uuid2", 0, 0), DefaultRawSegment}

\* The segment lists a hash bucket may carry, made of a valid section, a
\* valid highlight, a record failing the range checks and one failing the
\* category lookup.
BucketBatches ==
    LET section   == RawSegment("sponsor", "skip", 0, 1, "uuid1", 1, 0)
        highlight == RawSegment("poi_highlight", "skip", 1, 1, "uuid2", 0, 3)
        reversed  == RawSegment("sponsor", "skip", 1, 0, "uuid3", 1, 0)
    IN  {<<>>, <<section>>, <<reversed>>, <<DefaultRawSegment>>,
         <<section, highlight>>, <<section, reversed>>, <<reversed, section>>}

\* RawHashMatch as deserialized.
RawHashMatch(vid, segs) ==
    [video_id |-> vid, hash |-> Sha256Hex(vid), segments |-> segs]

HashMatches == {RawHashMatch(v, segs) : v \in VideoIds, segs \in BucketBatches}

\* Response bodies, by what serde_json makes of them: text that does not
\* deserialize into the expected shape, a list of segment objects, a list of
\* hash-bucket objects.
MalformedBody == [kind |-> "malformed", items |-> <<>>]
NoBody == [kind |-> "none", items |-> <<>>]
PlainBodies == {[kind |-> "segments", items |-> b] : b \in SeqsUpTo(Records, MaxRecords)}
PrivateBodies == {[kind |-> "buckets", items |-> b] : b \in SeqsUpTo(HashMatches, MaxBuckets)}

\* ------------------------------------------------------ normalization ----
TimeSection(start, end) == [start |-> start, end |-> end]
TimePoint(point) == [point |-> point]

\* RangeCheck without the check of the start's sign.
RangeCheckNoStartSign(s) ==
    IF s.segment[1] > s.segment[2]
    THEN Err(BadData("segment start ({}) > end ({})",
                     <<s.segment[1], s.segment[2]>>, ""))
    ELSE IF s.segment[2] < 0
    THEN Err(BadData("segment end ({}) < 0", <<s.segment[2]>>, ""))
    ELSE Ok(<<>>)

\* RangeCheck with the sign of the start checked before the order.
RangeCheckSignFirst(s) ==
    IF s.segment[1] < 0
    THEN Err(BadData("segment start ({}) < 0", <<s.segment[1]>>, ""))
    ELSE IF s.segment[1] > s.segment[2]
    THEN Err(BadData("segment start ({}) > end ({})",
                     <<s.segment[1], s.segment[2]>>, ""))
    ELSE IF s.segment[2] < 0
    THEN Err(BadData("segment end ({}) < 0", <<s.segment[2]>>, ""))
    ELSE Ok(<<>>)

\* RangeCheck with the sign of the end checked first.
RangeCheckEndFirst(s) ==
    IF s.segment[2] < 0
    THEN Err(BadData("segment end ({}) < 0", <<s.segment[2]>>, ""))
    ELSE IF s.segment[1] > s.segment[2]
    THEN Err(BadData("segment start ({}) > end ({})",
                     <<s.segment[1], s.segment[2]>>, ""))
    ELSE IF s.segment[1] < 0
    THEN Err(BadData("segment start ({}) < 0", <<s.segment[1]>>, ""))
    ELSE Ok(<<>>)

\* The three range checks of the map closure, in the order of the code.
\* Ok(<<>>) when the record passes all of them.
RangeCheck(s) ==
    IF s.segment[1] > s.segment[2]
    THEN Err(BadData("segment start ({}) > end ({})",
                     <<s.segment[1], s.segment[2]>>, ""))
    ELSE IF s.segment[1] < 0
    THEN Err(BadData("segment start ({}) < 0", <<s.segment[1]>>, ""))
    ELSE IF s.segment[2] < 0
    THEN Err(BadData("segment end ({}) < 0", <<s.segment[2]>>, ""))
    ELSE Ok(<<>>)

\* ActionableSegment with the highlight's point taken from segment[1].
ActionableSegmentPointFromEnd(kind, s) ==
    IF kind = "Highlight"
    THEN [kind |-> kind, time |-> [point |-> s.segment[2]]]
    ELSE [kind |-> kind, time |-> [start |-> s.segment[1], end |-> s.segment[2]]]

\* The match on ActionableSegmentKind: Highlight carries a TimePoint made of
\* segment[0]; every other kind carries the TimeSection of both elements.
ActionableSegment(kind, s) ==
    IF kind = "Highlight"
    THEN [kind |-> kind, time |-> TimePoint(s.segment[1])]
    ELSE [kind |-> kind, time |-> TimeSection(s.segment[1], s.segment[2])]

\* The map closure: range checks, then the category lookup, then the action
\* type lookup (the struct's fields are evaluated in the order written), each
\* returning early on failure.
Normalize(s) ==
    LET checked == RangeCheck(s)
        kind    == ApiConvertSegmentKind(s.category)
        action  == ApiConvertActionType(s.action_type)
    IN  IF checked.state = "err" THEN Err(checked.err)
        ELSE IF kind.state = "err" THEN Err(kind.err)
        ELSE IF action.state = "err" THEN Err(action.err)
        ELSE Ok([segment     |-> ActionableSegment(kind.val, s),
                 action_type |-> action.val,
                 uuid        |-> s.uuid,
                 locked      |-> s.locked # 0,
                 votes       |-> s.votes,
                 video_duration_upon_submission |->
                     s.video_duration_upon_submission])

\* ------------------------------------------------------------ request ----
API_ENDPOINT == "/skipSegments"
BaseUrl == "https://sponsor.ajay.app/api"
Service == "YouTube"

NoRequest == [url |-> <<>>, query |-> <<>>]

\* cfg(not(feature = "private_searches")): the endpoint, with the plaintext
\* identifier as the videoID query parameter.
PlainTarget(vid) ==
    [url |-> <<BaseUrl, API_ENDPOINT>>, query |-> << <<"videoID", <<vid>> >> >>]

\* PrivateTarget that also attaches the identifier, as the plain build does.
PrivateTargetWithVideoId(vid, prefixLen) ==
    [url |-> <<BaseUrl, API_ENDPOINT, "/">> \o SubSeq(Sha256Hex(vid), 1, prefixLen),
     query |-> << <<"videoID", <<vid>> >> >>]

\* cfg(feature = "private_searches"): the endpoint followed by the first
\* hash_prefix_length characters of the identifier's hex digest.
PrivateTarget(vid, prefixLen) ==
    [url |-> <<BaseUrl, API_ENDPOINT, "/">> \o SubSeq(Sha256Hex(vid), 1, prefixLen),
     query |-> <<>>]

\* AttachQuery without the is_empty test.
AttachQueryAlways(req, cats, required) ==
    [req EXCEPT !.query =
        @ \o << <<"categories", GenUrlValue(cats)>>,
                <<"service", <<Service>> >>,
                <<"requiredSegments", ToUrlArray(required)>> >>]

\* categories and service are always attached; requiredSegments only when
\* the slice is not empty.
AttachQuery(req, cats, required) ==
    LET base == [req EXCEPT !.query =
                    @ \o << <<"categories", GenUrlValue(cats)>>,
                            <<"service", <<Service>> >> >>]
    IN  IF required # <<>>
        THEN [base EXCEPT !.query =
                 Append(@, <<"requiredSegments", ToUrlArray(required)>>)]
        ELSE base

BuildRequest(private, prefixLen, vid, cats, required) ==
    AttachQuery(IF private THEN PrivateTarget(vid, prefixLen) ELSE PlainTarget(vid),
                cats, required)

\* -------------------------------------------------------------- state ----
VARIABLES
    private_searches,    \* the build has feature private_searches
    hash_prefix_length,  \* Client.hash_prefix_length
    pc,                  \* where the call is
    entry,               \* the function the caller entered through
    video_id,            \* argument video_id
    accepted_categories, \* argument accepted_categories
    required_segments,   \* argument required_segments
    request,             \* the request built, handed to the transport
    response,            \* the response body read, as serde_json sees it
    hash_matches,        \* the hash buckets not yet visited by the for loop
    found_match,         \* local found_match
    video_segments,      \* local video_segments, as far as not yet drained
    out,                 \* the Segments collected so far
    result               \* what the call returns

vars ==
    <<private_searches, hash_prefix_length, pc, entry, video_id,
      accepted_categories, required_segments, request, response,
      hash_matches, found_match, video_segments, out, result>>

client == <<private_searches, hash_prefix_length>>
args == <<entry, video_id, accepted_categories, required_segments>>
locals == <<hash_matches, found_match, video_segments, out>>

\* The prefix lengths a client is configured with.
PrefixLengths == {DigestLen - 1, DigestLen}

\* A constructed client with no call in progress.
Init ==
    /\ private_searches \in BOOLEAN
    /\ hash_prefix_length \in
           (IF private_searches THEN PrefixLengths ELSE {DigestLen})
    /\ pc = "idle"
    /\ entry = ""
    /\ video_id = ""
    /\ accepted_categories = <<>>
    /\ required_segments = <<>>
    /\ request = NoRequest
    /\ response = NoBody
    /\ hash_matches = <<>>
    /\ found_match = FALSE
    /\ video_segments = <<>>
    /\ out = <<>>
    /\ result = Pending

\* fetch_segments_with_required up to request.send(): the request is built
\* from the arguments and handed to the transport; the call suspends.
SendRequest(name, vid, cats, required) ==
    /\ pc = "idle"
    /\ entry' = name
    /\ video_id' = vid
    /\ accepted_categories' = cats
    /\ required_segments' = required
    /\ request' = BuildRequest(private_searches, hash_prefix_length,
                               vid, cats, required)
    /\ pc' = "sending"
    /\ UNCHANGED <<client, response, locals, result>>

\* fetch_segments: delegates with an empty slice of required segments.
FetchSegments(vid, cats) ==
    SendRequest("fetch_segments", vid, cats, <<>>)

FetchSegmentsWithRequired(vid, cats, required) ==
    SendRequest("fetch_segments_with_required", vid, cats, required)

\* The call ends: the result is set and the Vec being drained is dropped.
Finish(r) ==
    /\ result' = r
    /\ pc' = "done"
    /\ video_segments' = <<>>
    /\ out' = <<>>

\* The request was moved into send(); the entry point, the categories and
\* the required segments were only read to build it and are not read again.
RequestSent ==
    /\ request' = NoRequest
    /\ entry' = ""
    /\ accepted_categories' = <<>>
    /\ required_segments' = <<>>

\* request.send().await? or get_response_text(..).await? fails: the
\* transport's error is returned.
TransportError ==
    /\ pc = "sending"
    /\ RequestSent
    /\ Finish(Err(HttpError))
    /\ UNCHANGED <<client, video_id, response, hash_matches, found_match>>

\* The body is read and from_json_str fails on it (either feature).
ReceiveMalformed ==
    /\ pc = "sending"
    /\ RequestSent
    /\ response' = MalformedBody
    /\ Finish(Err(JsonError))
    /\ UNCHANGED <<client, video_id, hash_matches, found_match>>

\* cfg(not(feature = "private_searches")): the body deserializes into
\* Vec<RawSegment>, which becomes video_segments.
ReceivePlain ==
    /\ pc = "sending"
    /\ ~private_searches
    /\ RequestSent
    /\ \E body \in PlainBodies :
          /\ response' = body
          /\ video_segments' = body.items
    /\ pc' = "map"
    /\ UNCHANGED <<client, video_id, hash_matches, found_match, out, result>>

\* cfg(feature = "private_searches"): the body deserializes into
\* Vec<RawHashMatch>; found_match = false, video_segments = Vec::new(), and
\* the for loop starts draining the buckets.
ReceivePrivate ==
    /\ pc = "sending"
    /\ private_searches
    /\ RequestSent
    /\ \E body \in PrivateBodies :
          /\ response' = body
          /\ hash_matches' = body.items
    /\ found_match' = FALSE
    /\ video_segments' = <<>>
    /\ pc' = "scan"
    /\ UNCHANGED <<client, video_id, out, result>>

\* IsMatch comparing the truncated digests instead of the identifiers.
IsMatchByHashPrefix(hash_match, vid) ==
    SubSeq(hash_match.hash, 1, hash_prefix_length)
        = SubSeq(Sha256Hex(vid), 1, hash_prefix_length)

\* hash_match.video_id == video_id
IsMatch(hash_match, vid) == hash_match.video_id = vid

\* ScanMatch without the break: the loop goes on and a later match replaces
\* the segments taken.
ScanMatchNoBreak ==
    /\ pc = "scan"
    /\ hash_matches # <<>>
    /\ IsMatch(Head(hash_matches), video_id)
    /\ video_segments' = Head(hash_matches).segments
    /\ found_match' = TRUE
    /\ hash_matches' = Tail(hash_matches)
    /\ pc' = IF Tail(hash_matches) = <<>> THEN "map" ELSE "scan"
    /\ UNCHANGED <<client, args, request, response, out, result>>

\* A loop iteration whose bucket matches: its segments are taken,
\* found_match is set, and break leaves the loop (the check after the loop
\* passes and the rest of the drain is dropped).
ScanMatch ==
    /\ pc = "scan"
    /\ hash_matches # <<>>
    /\ IsMatch(Head(hash_matches), video_id)
    /\ video_segments' = Head(hash_matches).segments
    /\ found_match' = TRUE
    /\ hash_matches' = <<>>
    /\ pc' = "map"
    /\ UNCHANGED <<client, args, request, response, out, result>>

\* A loop iteration whose bucket does not match.
ScanSkip ==
    /\ pc = "scan"
    /\ hash_matches # <<>>
    /\ ~IsMatch(Head(hash_matches), video_id)
    /\ hash_matches' = Tail(hash_matches)
    /\ UNCHANGED <<client, args, request, response, found_match,
                   video_segments, out, result, pc>>

\* The loop ran out of buckets without a break: found_match is still false
\* and NoMatchingVideoHash is returned.
ScanEnd ==
    /\ pc = "scan"
    /\ hash_matches = <<>>
    /\ ~found_match
    /\ Finish(Err(NoMatchingVideoHash))
    /\ UNCHANGED <<client, args, request, response, hash_matches, found_match>>

\* MapStep that drops a record failing normalization and goes on.
MapStepSkipBad ==
    /\ pc = "map"
    /\ video_segments # <<>>
    /\ LET r == Normalize(Head(video_segments))
       IN  out' = IF r.state = "ok" THEN Append(out, r.val) ELSE out
    /\ video_segments' = Tail(video_segments)
    /\ UNCHANGED <<client, args, request, response, hash_matches,
                   found_match, pc, result>>

\* MapStep that puts each Segment in front of those collected before.
MapStepPrepend ==
    /\ pc = "map"
    /\ video_segments # <<>>
    /\ LET r == Normalize(Head(video_segments))
       IN  IF r.state = "ok"
           THEN /\ out' = <<r.val>> \o out
                /\ video_segments' = Tail(video_segments)
                /\ UNCHANGED <<pc, result>>
           ELSE Finish(Err(r.err))
    /\ UNCHANGED <<client, args, request, response, hash_matches, found_match>>

\* One element of video_segments.drain(..).map(..).collect(): the record is
\* normalized; an Ok is pushed, an Err ends the collection and is returned.
MapStep ==
    /\ pc = "map"
    /\ video_segments # <<>>
    /\ LET r == Normalize(Head(video_segments))
       IN  IF r.state = "ok"
           THEN /\ out' = Append(out, r.val)
                /\ video_segments' = Tail(video_segments)
                /\ UNCHANGED <<pc, result>>
           ELSE Finish(Err(r.err))
    /\ UNCHANGED <<client, args, request, response, hash_matches, found_match>>

\* The drain is exhausted: collect() returns Ok with the Segments.
MapEnd ==
    /\ pc = "map"
    /\ video_segments = <<>>
    /\ result' = Ok(out)
    /\ pc' = "done"
    /\ out' = <<>>
    /\ UNCHANGED <<client, args, request, response, hash_matches,
                   found_match, video_segments>>

\* The caller takes the result; the client is ready for the next call.
Return ==
    /\ pc = "done"
    /\ pc' = "idle"
    /\ entry' = ""
    /\ video_id' = ""
    /\ accepted_categories' = <<>>
    /\ required_segments' = <<>>
    /\ request' = NoRequest
    /\ response' = NoBody
    /\ hash_matches' = <<>>
    /\ found_match' = FALSE
    /\ video_segments' = <<>>
    /\ out' = <<>>
    /\ result' = Pending
    /\ UNCHANGED client

Next ==
    \/ \E v \in VideoIds, c \in CategorySets : FetchSegments(v, c)
    \/ \E v \in VideoIds, c \in CategorySets, r \in RequiredLists :
          FetchSegmentsWithRequired(v, c, r)
    \/ TransportError
    \/ ReceiveMalformed
    \/ ReceivePlain
    \/ ReceivePrivate
    \/ ScanMatch
    \/ ScanSkip
    \/ ScanEnd
    \/ MapStep
    \/ MapEnd
    \/ Return

Spec == Init /\ [][Next]_vars

\* ------------------------------------------------------------- claims ----
\* What the claims speak of, stated from the response and the arguments
\* rather than from the locals of the call.

\* The positions of the buckets whose videoID equals the caller's video_id.
MatchingIndices ==
    {i \in DOMAIN response.items : response.items[i].video_id = video_id}

FirstMatch ==
    CHOOSE i \in MatchingIndices : \A j \in MatchingIndices : i <= j

\* A list of records is handed to normalization.
HasBatch ==
    \/ ~private_searches /\ response.kind = "segments"
    \/ private_searches /\ response.kind = "buckets" /\ MatchingIndices # {}

\* The records handed to normalization.
Batch ==
    IF private_searches
    THEN response.items[FirstMatch].segments
    ELSE response.items

Start(s) == s.segment[1]
End(s) == s.segment[2]

RangeBad(s) == Start(s) > End(s) \/ Start(s) < 0 \/ End(s) < 0

Valid(s) ==
    /\ ~RangeBad(s)
    /\ s.category \in KnownCategories
    /\ s.action_type \in KnownActionTypes

IsHighlight(s) == s.category = "poi_highlight"

InvalidIndices(batch) == {i \in DOMAIN batch : ~Valid(batch[i])}

FirstInvalid(batch) ==
    CHOOSE i \in InvalidIndices(batch) : \A j \in InvalidIndices(batch) : i <= j

Returned == pc = "done" /\ result.state = "ok"
Failed == pc = "done" /\ result.state = "err"

HasParam(req, key) == \E i \in DOMAIN req.query : req.query[i][1] = key

HashPrefix(vid) == SubSeq(Sha256Hex(vid), 1, hash_prefix_length)

TypeOK ==
    /\ pc \in {"idle", "sending", "scan", "map", "done"}
    /\ found_match \in BOOLEAN
    /\ result.state \in {"pending", "ok", "err"}
    /\ (pc = "done") = (result.state # "pending")

\* The invariant of a Segment: non-negative times, and start <= end unless it
\* is a Highlight.
SegmentTimesOK(seg) ==
    IF seg.segment.kind = "Highlight"
    THEN seg.segment.time.point >= 0
    ELSE /\ seg.segment.time.start >= 0
         /\ seg.segment.time.end >= 0
         /\ seg.segment.time.start <= seg.segment.time.end

\* C1: every Segment of an Ok result, and every Segment collected on the way
\* to one, has non-negative times, and start <= end unless it is a Highlight.
C1_ReturnedTimesValid ==
    /\ Returned => \A i \in DOMAIN result.val : SegmentTimesOK(result.val[i])
    /\ \A i \in DOMAIN out : SegmentTimesOK(out[i])

C1_Witness ==
    /\ Returned
    /\ private_searches
    /\ Len(result.val) = 2
    /\ result.val[1].segment.kind = "Sponsor"
    /\ result.val[2].segment.kind = "Highlight"

\* C2: when any record of the batch handed to normalization has start > end,
\* start < 0 or end < 0, the call ends in a BadData error and returns no
\* Segment, wherever the record sits.
C2_BadRecordFailsBatch ==
    (pc = "done" /\ HasBatch /\ \E i \in DOMAIN Batch : RangeBad(Batch[i]))
        => /\ result.state = "err"
           /\ result.err.type = "BadData"
           /\ result.val = <<>>

C2_Witness ==
    /\ Failed
    /\ HasBatch
    /\ Len(Batch) = 2
    /\ Valid(Batch[1])
    /\ RangeBad(Batch[2])
    /\ result.err.type = "BadData"

\* C3: in plain mode, when every record of the response is valid, the result
\* has one Segment per record, the i-th being the normalization of the i-th.
C3_OnePerRecordInOrder ==
    (/\ pc = "done"
     /\ ~private_searches
     /\ response.kind = "segments"
     /\ \A i \in DOMAIN response.items : Valid(response.items[i]))
        => /\ result.state = "ok"
           /\ Len(result.val) = Len(response.items)
           /\ \A i \in DOMAIN response.items :
                 /\ result.val[i] = Normalize(response.items[i]).val
                 /\ result.val[i].uuid = response.items[i].uuid
                 /\ IsHighlight(response.items[i])
                    \/ result.val[i].segment.time =
                           TimeSection(Start(response.items[i]),
                                       End(response.items[i]))

C3_Witness ==
    /\ Returned
    /\ ~private_searches
    /\ Len(response.items) = 2
    /\ response.items[1] # response.items[2]
    /\ Len(result.val) = 2

\* The outcome of normalizing a list of records: the Segments in order when
\* all of them normalize, else the error of the first one that does not.
ExpectedOutcome(batch) ==
    IF InvalidIndices(batch) = {}
    THEN Ok([i \in 1..Len(batch) |-> Normalize(batch[i]).val])
    ELSE Err(Normalize(batch[FirstInvalid(batch)]).err)

\* C4: in privacy mode the outcome is that of normalizing the segments of the
\* first bucket whose videoID equals video_id: the Segments in order when all
\* its records normalize, else the error of its first failing record.  The
\* other buckets do not enter into it.
C4_FirstMatchingBucketDecides ==
    (/\ pc = "done"
     /\ private_searches
     /\ response.kind = "buckets"
     /\ MatchingIndices # {})
        => result = ExpectedOutcome(response.items[FirstMatch].segments)

C4_Witness ==
    /\ Returned
    /\ private_searches
    /\ response.kind = "buckets"
    /\ Len(response.items) = 2
    /\ response.items[1].video_id # video_id
    /\ \E i \in DOMAIN response.items[1].segments :
          ~Valid(response.items[1].segments[i])
    /\ response.items[2].video_id = video_id
    /\ Len(result.val) = 2

\* C5: in privacy mode, once the body is deserialized, the call fails with
\* NoMatchingVideoHash exactly when no bucket has videoID equal to video_id;
\* a first match with no segments gives Ok with no Segment.
C5_NoMatchIffNoBucket ==
    (pc = "done" /\ private_searches /\ response.kind = "buckets")
        => /\ (result = Err(NoMatchingVideoHash)) <=> (MatchingIndices = {})
           /\ (MatchingIndices # {} /\ response.items[FirstMatch].segments = <<>>)
                 => result = Ok(<<>>)

C5_Witness ==
    /\ Failed
    /\ private_searches
    /\ response.kind = "buckets"
    /\ Len(response.items) = 2
    /\ \A i \in DOMAIN response.items : response.items[i].segments # <<>>
    /\ MatchingIndices = {}
    /\ result.err = NoMatchingVideoHash

\* C6: in privacy mode the request in flight has no videoID parameter, holds
\* the identifier nowhere in its path or its query values, and is the request
\* that any identifier with the same hash prefix would give with the same
\* categories and required segments.
C6_RequestHidesVideoId ==
    (pc = "sending" /\ private_searches)
        => /\ ~HasParam(request, "videoID")
           /\ video_id \notin Range(request.url)
           /\ \A i \in DOMAIN request.query : video_id \notin Range(request.query[i][2])
           /\ request.url = <<BaseUrl, API_ENDPOINT, "/">> \o HashPrefix(video_id)
           /\ \A v \in VideoIds :
                 HashPrefix(v) = HashPrefix(video_id)
                     => request = BuildRequest(TRUE, hash_prefix_length, v,
                                               accepted_categories, required_segments)

C6_Witness ==
    /\ pc = "sending"
    /\ private_searches
    /\ \E v \in VideoIds : v # video_id /\ HashPrefix(v) = HashPrefix(video_id)
    /\ required_segments # <<>>

\* C7: the request in flight has a requiredSegments parameter exactly when
\* the required_segments slice is not empty; a call through fetch_segments has
\* none.
C7_RequiredSegmentsIffNonEmpty ==
    pc = "sending"
        => /\ HasParam(request, "requiredSegments") <=> (required_segments # <<>>)
           /\ entry = "fetch_segments" => ~HasParam(request, "requiredSegments")

C7_Witness ==
    /\ pc = "sending"
    /\ entry = "fetch_segments_with_required"
    /\ required_segments # <<>>
    /\ HasParam(request, "requiredSegments")

\* C8, as claimed: every record whose category maps to Highlight normalizes to
\* a Highlight with point = start, whatever its end is; so a batch made only
\* of such records (with a non-negative point and a known action type) gives
\* one Highlight per record.
C8_HighlightWhateverEnd ==
    (/\ pc = "done"
     /\ HasBatch
     /\ \A i \in DOMAIN Batch :
           /\ IsHighlight(Batch[i])
           /\ Batch[i].action_type \in KnownActionTypes
           /\ Start(Batch[i]) >= 0)
        => /\ result.state = "ok"
           /\ Len(result.val) = Len(Batch)
           /\ \A i \in DOMAIN Batch :
                 result.val[i].segment =
                     [kind |-> "Highlight", time |-> [point |-> Start(Batch[i])]]

\* C8, amended: every Highlight record that passes the range checks
\* (0 <= start <= end) and has a known action type normalizes to a Highlight
\* with point = start; the end is not carried, so two such records that
\* differ only in their end give the same Segment.
C8_HighlightWithinRange ==
    /\ (/\ pc = "done"
        /\ HasBatch
        /\ \A i \in DOMAIN Batch :
              /\ IsHighlight(Batch[i])
              /\ Batch[i].action_type \in KnownActionTypes
              /\ ~RangeBad(Batch[i]))
           => /\ result.state = "ok"
              /\ Len(result.val) = Len(Batch)
    /\ (Returned /\ HasBatch)
           => \A i \in DOMAIN result.val :
                 IsHighlight(Batch[i])
                     => /\ result.val[i].segment =
                             [kind |-> "Highlight",
                              time |-> [point |-> Start(Batch[i])]]
                        /\ \A j \in DOMAIN result.val :
                              Batch[j] = [Batch[i] EXCEPT !.segment[2] = End(Batch[j])]
                                  => result.val[j] = result.val[i]

C8_Witness ==
    /\ Returned
    /\ HasBatch
    /\ Len(Batch) = 2
    /\ IsHighlight(Batch[1]) /\ IsHighlight(Batch[2])
    /\ Start(Batch[1]) = Start(Batch[2])
    /\ End(Batch[1]) > Start(Batch[1])
    /\ End(Batch[2]) = Start(Batch[2])
    /\ result.val[1] = result.val[2]

\* The three BadData errors of the range checks, as the source formats them.
StartAfterEnd(s) == BadData("segment start ({}) > end ({})", <<Start(s), End(s)>>, "")
StartNegative(s) == BadData("segment start ({}) < 0", <<Start(s)>>, "")
EndNegative(s) == BadData("segment end ({}) < 0", <<End(s)>>, "")

\* C9: the error of a record failing the range checks is that of the first
\* failing check in the order start > end, start < 0, end < 0, and the
\* descriptions of the checks differ.
C9_FirstFailingCheckWins ==
    (pc = "done" /\ HasBatch /\ InvalidIndices(Batch) # {})
        => LET s == Batch[FirstInvalid(Batch)]
           IN  /\ Start(s) > End(s) => result.err = StartAfterEnd(s)
               /\ (Start(s) <= End(s) /\ Start(s) < 0)
                     => result.err = StartNegative(s)
               /\ (Start(s) <= End(s) /\ Start(s) >= 0 /\ End(s) < 0)
                     => result.err = EndNegative(s)
               /\ StartAfterEnd(s).desc # StartNegative(s).desc
               /\ StartAfterEnd(s).desc # EndNegative(s).desc
               /\ StartNegative(s).desc # EndNegative(s).desc

C9_Witness ==
    /\ Failed
    /\ HasBatch
    /\ InvalidIndices(Batch) # {}
    /\ LET s == Batch[FirstInvalid(Batch)]
       IN  /\ Start(s) > End(s)
           /\ Start(s) < 0
           /\ result.err = StartAfterEnd(s)

\* C10: no call ends in the 'segment end < 0' error: a record with a negative
\* end is rejected by one of the two checks before it.
C10_EndNegativeNeverReported ==
    /\ pc = "done" => result.err.desc # "segment end ({}) < 0"
    /\ (pc = "done" /\ HasBatch /\ InvalidIndices(Batch) # {})
           => LET s == Batch[FirstInvalid(Batch)]
              IN  End(s) < 0
                     => result.err \in {StartAfterEnd(s), StartNegative(s)}

C10_Witness ==
    /\ Failed
    /\ HasBatch
    /\ InvalidIndices(Batch) # {}
    /\ LET s == Batch[FirstInvalid(Batch)]
       IN  /\ End(s) < 0
           /\ Start(s) <= End(s)
           /\ result.err = StartNegative(s)

====
